---- MODULE Spec2Model ----
(***************************************************************************)
(* A model of the RAG orchestration layer over a vector index, a metadata   *)
(* store and an embedding service: the embedding batcher                   *)
(* (common/utils/embeddings.py), the search-result fusion (rag/search.py), *)
(* the metadata store (vector_store/utils/firestore_ops.py), the vector    *)
(* index client (common/utils/vector_search.py), the ingestion             *)
(* (vector_store/setup_vector_search.py, utils/index_manager.py) and the   *)
(* result formatter and analyzer (common/utils/result_formatter.py).       *)
(***************************************************************************)
EXTENDS Integers, Sequences, FiniteSets, TLC

\* ------------------------------------------------------------------ bounds
MaxTexts == 3
MaxBatchSize == 2
MaxQuestions == 2
MaxNeighbors == 3

\* -------------------------------------------------------- program constants
MAX_TOKENS_PER_TEXT == 2042
MAX_RETRY_ATTEMPTS == 3
RETRY_DELAY_SECONDS == 1

VARIABLES
    \* EmbeddingGenerator.generate_embeddings
    text_info_list,   \* the input: a sequence of [filename, content, tokens]
    batch_size,       \* EmbeddingConfig.batch_size
    pc,               \* position of the calling thread in generate_embeddings
    prepared_texts,   \* validate_and_prepare_texts: the texts validated so far
    future_state,     \* batch index -> "queued" | "running" | "ok" | "failed"
    future_result,    \* batch index -> the vectors _process_batch returned
    collected,        \* batch indices whose future as_completed has yielded
    all_embeddings,   \* the result list of generate_embeddings
    api_calls,        \* batch index -> get_embeddings requests issued for it
    raised,           \* the exception that left generate_embeddings, or NoError
    returned,         \* the list generate_embeddings returned, or NotReturned
    \* SemanticSearcher.search, from the vector index query on
    questions,            \* the questions of the search, in input order
    min_similarity_score, \* SearchParameters.min_similarity_score
    compute_statistics,   \* SearchParameters.compute_statistics
    metadata_store,       \* data point id -> the stored document, or NoDocument
    raw_results,          \* find_neighbors: per question, its neighbors
    search_pc,            \* position of search
    match_idx,            \* index in question_results of the next neighbor
    result_entries,       \* the entries of the question being processed
    processed_results,    \* the per-question results built so far
    metadata_fetches,     \* the ids get_text_metadata was called with, in order
    search_raised,        \* the exception that left search, or NoError
    response,             \* what search returned, or NoResponse
    \* FirestoreManager, the operations on the documents of metadata_store
    clock,                \* what datetime.now() returns next
    store_op,             \* the last operation on the store and its outcome
    \* VectorSearchClient
    endpoint,             \* self.endpoint: "None" or the name of the endpoint
    external_calls,       \* calls issued to the index endpoint so far
    client_op,            \* the last call of a client method and its outcome
    \* VectorStoreSetup.setup_vector_search
    setup_texts,          \* the texts to ingest: a sequence of [filename, content]
    setup_pc,             \* position of setup_vector_search
    datapoints,           \* process_texts: the IndexDatapoints
    metadata_list,        \* process_texts: the metadata dictionaries
    operation,            \* the long-running operation being waited for
    elapsed,              \* wait_for_operation: time.time() - start_time
    wait_raised,          \* the exception that left wait_for_operation, or NoError
    setup_calls,          \* the calls made to the services, with their outcomes
    setup_raised,         \* the exception that left setup_vector_search, or NoError
    \* EmbeddingGenerator._generate_single_embedding
    single_text,          \* the text to embed
    retry_attempts,       \* EmbeddingConfig.retry_attempts
    retry_delay,          \* EmbeddingConfig.retry_delay
    attempt,              \* the loop variable of `for attempt in range(...)`
    attempt_log,          \* what each get_embeddings call did, in order
    slept,                \* the seconds spent in time.sleep so far
    single_pc,            \* position of _generate_single_embedding
    single_raised,        \* the exception that left it, or NoError
    single_returned,      \* what it returned, or NotReturned
    \* ResultFormatter.to_detailed_dict and to_summary_text
    fmt_results,          \* the results to format: [question, results] each
    max_matches,          \* the max_matches of to_summary_text
    fmt_pc,               \* which of the two is called next
    fmt_detailed,         \* what to_detailed_dict returned
    fmt_summary           \* what to_summary_text returned, part by part

embVars == <<text_info_list, batch_size, pc, prepared_texts, future_state,
             future_result, collected, all_embeddings, api_calls, raised,
             returned>>

searchVars == <<questions, min_similarity_score, compute_statistics,
                metadata_store, raw_results, search_pc, match_idx,
                result_entries, processed_results, metadata_fetches,
                search_raised, response>>

\* The variables of search other than the store.
searchOwnVars == <<questions, min_similarity_score, compute_statistics,
                   raw_results, search_pc, match_idx, result_entries,
                   processed_results, metadata_fetches, search_raised,
                   response>>

storeVars == <<clock, store_op>>

clientVars == <<endpoint, external_calls, client_op>>

setupVars == <<setup_texts, setup_pc, datapoints, metadata_list, operation,
               elapsed, wait_raised, setup_calls, setup_raised>>

singleVars == <<single_text, retry_attempts, retry_delay, attempt,
                attempt_log, slept, single_pc, single_raised, single_returned>>

formatVars == <<fmt_results, max_matches, fmt_pc, fmt_detailed, fmt_summary>>

\* What an action of one component leaves alone: the other components.
outsideEmb == <<searchVars, storeVars, clientVars, setupVars, singleVars,
    formatVars>>
outsideSearch == <<embVars, storeVars, clientVars, setupVars, singleVars,
    formatVars>>
outsideStore == <<embVars, searchOwnVars, clientVars, setupVars, singleVars,
    formatVars>>
outsideClient == <<embVars, searchVars, storeVars, setupVars, singleVars,
    formatVars>>
outsideSetup == <<embVars, searchOwnVars, storeVars, clientVars, singleVars,
    formatVars>>
outsideSingle == <<embVars, searchVars, storeVars, clientVars, setupVars,
    formatVars>>
outsideFormat == <<embVars, searchVars, storeVars, clientVars, setupVars,
    singleVars>>

vars == <<embVars, searchVars, storeVars, clientVars, setupVars, singleVars,
          formatVars>>

\* ----------------------------------------------------------------- helpers
Min(a, b) == IF a <= b THEN a ELSE b

NoError == [type |-> "none", cause |-> "none", label |-> 0]
NotReturned == [done |-> FALSE, value |-> <<>>]
Returned(value) == [done |-> TRUE, value |-> value]

\* What the tokenizer does with a text: encoding.encode raises (count_tokens
\* raises TokenizationError), or the text has a token count, here around the
\* limit.
EncodeFails == [encodable |-> FALSE, count |-> 0]
TokenCount(n) == [encodable |-> TRUE, count |-> n]

TokenOutcomes ==
    {TokenCount(MAX_TOKENS_PER_TEXT - 1), TokenCount(MAX_TOKENS_PER_TEXT),
     TokenCount(MAX_TOKENS_PER_TEXT + 1), EncodeFails}

\* The vector the embedding service computes for a text.
EmbeddingOf(content) == [vec |-> content]
\* A vector that belongs to no input text (a surplus vector of the service).
StrayVector == [vec |-> 0]

\* Mutant of validate_token_count: the limit itself is rejected (< for <=).
validate_token_count_strict(tokens, max_tokens) ==
    IF tokens.encodable THEN tokens.count < max_tokens ELSE FALSE

\* TextTokenizer.validate_token_count: is_valid of the TokenValidationResult.
validate_token_count(tokens, max_tokens) ==
    IF tokens.encodable THEN tokens.count <= max_tokens ELSE FALSE

\* Mutant of NumBatches: the division rounds down, a last partial batch is
\* not cut.
NumBatchesRoundedDown(texts, bs) == Len(texts) \div bs

\* The batches of generate_embeddings: texts[i:i + batch_size] for
\* i in range(0, total_texts, batch_size); batch b here is Python's b - 1.
NumBatches(texts, bs) == (Len(texts) + bs - 1) \div bs

Batch(texts, bs, b) == SubSeq(texts, (b - 1) * bs + 1, Min(b * bs, Len(texts)))

BatchIds == 1..NumBatches(prepared_texts, batch_size)

\* What model.get_embeddings may answer for a batch: one vector per text in
\* order, one vector too few, one too many, or an exception (Failure).
Failure == [ok |-> FALSE, values |-> <<>>]
Answer(values) == [ok |-> TRUE, values |-> values]

ServiceAnswers(batch) ==
    LET exact == [i \in 1..Len(batch) |-> EmbeddingOf(batch[i].content)]
    IN  {Answer(exact), Answer(SubSeq(exact, 1, Len(exact) - 1)),
         Answer(Append(exact, StrayVector)), Failure}

\* ------------------------------------------------------------------- Init
TextInfos(n) ==
    {[i \in 1..n |-> [filename |-> i, content |-> i, tokens |-> t[i]]] :
        t \in [1..n -> TokenOutcomes]}

EmbInit ==
    /\ \E n \in 0..MaxTexts : text_info_list \in TextInfos(n)
    /\ batch_size \in 1..MaxBatchSize
    /\ pc = "validate"
    /\ prepared_texts = <<>>
    /\ future_state = <<>>
    /\ future_result = <<>>
    /\ collected = {}
    /\ all_embeddings = <<>>
    /\ api_calls = <<>>
    /\ raised = NoError
    /\ returned = NotReturned

\* ---------------------------------------------------------------- actions
\* The outer `except Exception` of generate_embeddings: whatever was raised
\* inside leaves as an EmbeddingError that keeps the cause.
WrapEmbeddingError(cause, label) ==
    [type |-> "EmbeddingError", cause |-> cause, label |-> label]

\* Mutant of ValidateStep: an invalid text is reported and embedded all the
\* same.
ValidateStepLogOnly(text_info) ==
    /\ prepared_texts' = Append(prepared_texts, text_info)
    /\ UNCHANGED <<pc, raised>>

\* One iteration of the loop of validate_and_prepare_texts.
ValidateStep(text_info) ==
    IF validate_token_count(text_info.tokens, MAX_TOKENS_PER_TEXT)
    THEN /\ prepared_texts' = Append(prepared_texts, text_info)
         /\ UNCHANGED <<pc, raised>>
    ELSE /\ raised' = WrapEmbeddingError("TokenizationError", text_info.filename)
         /\ pc' = "done"
         /\ UNCHANGED prepared_texts

ValidateText ==
    /\ pc = "validate"
    /\ Len(prepared_texts) < Len(text_info_list)
    /\ ValidateStep(text_info_list[Len(prepared_texts) + 1])
    /\ UNCHANGED <<text_info_list, batch_size, future_state, future_result,
                   collected, all_embeddings, api_calls, returned>>
    /\ UNCHANGED outsideEmb

\* validate_and_prepare_texts returned; the batches are cut and every batch
\* is submitted to the executor.
SubmitBatches ==
    /\ pc = "validate"
    /\ Len(prepared_texts) = Len(text_info_list)
    /\ pc' = "collect"
    /\ future_state' = [b \in BatchIds |-> "queued"]
    /\ future_result' = [b \in BatchIds |-> <<>>]
    /\ api_calls' = [b \in BatchIds |-> 0]
    /\ UNCHANGED <<text_info_list, batch_size, prepared_texts, collected,
                   all_embeddings, raised, returned>>
    /\ UNCHANGED outsideEmb

\* A worker thread takes the next queued batch (the executor's work queue is
\* first in, first out) and issues model.get_embeddings for it. The default
\* ThreadPoolExecutor() has min(32, cpu_count + 4) >= 5 workers, more than the
\* batches of this model, so a queued batch never waits for a free worker.
StartBatch(b) ==
    /\ pc \in {"collect", "shutdown"}
    /\ b \in DOMAIN future_state
    /\ future_state[b] = "queued"
    /\ \A j \in 1..(b - 1) : future_state[j] # "queued"
    /\ future_state' = [future_state EXCEPT ![b] = "running"]
    /\ api_calls' = [api_calls EXCEPT ![b] = @ + 1]
    /\ UNCHANGED <<text_info_list, batch_size, pc, prepared_texts,
                   future_result, collected, all_embeddings, raised, returned>>
    /\ UNCHANGED outsideEmb

\* _process_batch: the request returns or raises; an exception becomes a
\* BatchProcessingError of the future, with no further attempt.
ProcessBatchOutcome(b, answer) ==
    IF ~answer.ok
    THEN /\ future_state' = [future_state EXCEPT ![b] = "failed"]
         /\ UNCHANGED future_result
    ELSE /\ future_state' = [future_state EXCEPT ![b] = "ok"]
         /\ future_result' = [future_result EXCEPT ![b] = answer.values]

FinishBatch(b) ==
    /\ pc \in {"collect", "shutdown"}
    /\ b \in DOMAIN future_state
    /\ future_state[b] = "running"
    /\ \E answer \in ServiceAnswers(Batch(prepared_texts, batch_size, b)) :
          ProcessBatchOutcome(b, answer)
    /\ UNCHANGED <<text_info_list, batch_size, pc, prepared_texts, collected,
                   all_embeddings, api_calls, raised, returned>>
    /\ UNCHANGED outsideEmb

\* Mutant of ExtendEmbeddings: the vectors of a batch are added twice.
ExtendEmbeddingsTwice(embeddings, b, batch_embeddings) ==
    embeddings \o batch_embeddings \o batch_embeddings

\* The body of `for future in as_completed(future_to_batch)` for a future
\* that succeeded: all_embeddings.extend(batch_embeddings).
ExtendEmbeddings(embeddings, b, batch_embeddings) == embeddings \o batch_embeddings

\* Mutant of BatchFailed: the failed batch is logged and skipped.
BatchFailedIgnored(b) == UNCHANGED <<pc, raised, all_embeddings>>

\* `except BatchProcessingError` in the loop: the error is raised again as an
\* EmbeddingError and leaves the loop.
BatchFailed(b) ==
    /\ raised' = WrapEmbeddingError("BatchProcessingError", b)
    /\ pc' = "shutdown"
    /\ UNCHANGED all_embeddings

\* as_completed yields a finished future that it has not yielded yet.
CollectBatch(b) ==
    /\ pc = "collect"
    /\ b \in DOMAIN future_state
    /\ b \notin collected
    /\ future_state[b] \in {"ok", "failed"}
    /\ collected' = collected \cup {b}
    /\ IF future_state[b] = "ok"
       THEN /\ all_embeddings' =
                   ExtendEmbeddings(all_embeddings, b, future_result[b])
            /\ UNCHANGED <<pc, raised>>
       ELSE BatchFailed(b)
    /\ UNCHANGED <<text_info_list, batch_size, prepared_texts, future_state,
                   future_result, api_calls, returned>>
    /\ UNCHANGED outsideEmb

\* Mutant of ShutdownAfterError: the error propagates at once, without
\* waiting for the submitted batches.
ShutdownWithoutWaiting ==
    /\ pc = "shutdown"
    /\ pc' = "done"
    /\ UNCHANGED <<text_info_list, batch_size, prepared_texts, future_state,
                   future_result, collected, all_embeddings, api_calls, raised,
                   returned>>
    /\ UNCHANGED outsideEmb

\* The exception leaves the `with ThreadPoolExecutor()` block: the executor
\* is shut down waiting for every submitted batch, then the error propagates.
ShutdownAfterError ==
    /\ pc = "shutdown"
    /\ \A b \in DOMAIN future_state : future_state[b] \in {"ok", "failed"}
    /\ pc' = "done"
    /\ UNCHANGED <<text_info_list, batch_size, prepared_texts, future_state,
                   future_result, collected, all_embeddings, api_calls, raised,
                   returned>>
    /\ UNCHANGED outsideEmb

\* Mutant of CountMatches: only a shortfall is detected.
CountMatchesAtLeast(embeddings, total_texts) == Len(embeddings) >= total_texts

\* "Verify results": the count check after the executor block.
CountMatches(embeddings, total_texts) == Len(embeddings) = total_texts

VerifyResults ==
    /\ pc = "collect"
    /\ collected = DOMAIN future_state
    /\ pc' = "done"
    /\ IF CountMatches(all_embeddings, Len(prepared_texts))
       THEN /\ returned' = Returned(all_embeddings)
            /\ UNCHANGED raised
       ELSE /\ raised' = WrapEmbeddingError("CountMismatch", Len(all_embeddings))
            /\ UNCHANGED returned
    /\ UNCHANGED <<text_info_list, batch_size, prepared_texts, future_state,
                   future_result, collected, all_embeddings, api_calls>>
    /\ UNCHANGED outsideEmb

\* ======================================================== search (rag/search.py)
\* Scores and distances are fixed-point numbers counted in halves:
\* FixedPointOne is the float 1.0 of `1.0 - (match.distance / 2.0)`.
FixedPointOne == 2

\* The distances the index may return for a neighbor: -1.0, 1.0 and 2.0
\* (a DOT_PRODUCT_DISTANCE is not confined to [0, 2]).
Distances == {-FixedPointOne, FixedPointOne, 2 * FixedPointOne}

\* The thresholds a caller passes: 0.0 (the default) and 0.5 (main).
Thresholds == {0, FixedPointOne \div 2}

\* The data point ids of the index: one with a document in the metadata
\* store, one without (an index entry whose metadata was never saved).
DataPointIds == {"dp_stored", "dp_orphan"}

NoDocument == [exists |-> FALSE, data |-> <<>>]
Document(id) ==
    [exists |-> TRUE, data |-> [data_point_id |-> id, text |-> id]]

None == <<>>
NoResponse == [done |-> FALSE]

Neighbor == [id : DataPointIds, distance : Distances]

RECURSIVE SumTo(_, _)
SumTo(sizes, q) == IF q = 0 THEN 0 ELSE sizes[q] + SumTo(sizes, q - 1)

\* What endpoint.find_neighbors may return for n queries: one neighbor list
\* per query, at most MaxNeighbors neighbors in all.
RawResults(n) ==
    UNION {
        {[q \in 1..n |->
            [i \in 1..sizes[q] |-> flat[SumTo(sizes, q - 1) + i]]] :
                flat \in [1..SumTo(sizes, n) -> Neighbor]} :
        sizes \in {sz \in [1..n -> 0..MaxNeighbors] :
                     SumTo(sz, n) <= MaxNeighbors}}

SearchInit ==
    /\ \E n \in 0..MaxQuestions : questions = [q \in 1..n |-> q]
    /\ min_similarity_score \in Thresholds
    /\ compute_statistics \in BOOLEAN
    /\ metadata_store = [id \in DataPointIds |->
                           IF id = "dp_stored" THEN Document(id) ELSE NoDocument]
    /\ raw_results = <<>>
    /\ search_pc = "generate_embeddings"
    /\ match_idx = 1
    /\ result_entries = <<>>
    /\ processed_results = <<>>
    /\ metadata_fetches = <<>>
    /\ search_raised = NoError
    /\ response = NoResponse

\* Mutant of WrapSearchError: the exception leaves as it was raised.
WrapSearchErrorReraised(cause) == [type |-> cause, cause |-> cause, label |-> 0]

\* The `except Exception` of search and of _process_search_results: whatever
\* was raised inside leaves as a SearchError that keeps the cause.
WrapSearchError(cause) ==
    [type |-> "SearchError", cause |-> cause, label |-> 0]

\* _generate_embeddings, called by search: embed_texts returns the vectors of
\* the questions or raises EmbeddingError.
GenerateQueryEmbeddings ==
    /\ search_pc = "generate_embeddings"
    /\ \/ /\ search_pc' = "find_neighbors"
          /\ UNCHANGED search_raised
       \/ /\ search_raised' = WrapSearchError("EmbeddingError")
          /\ search_pc' = "done"
    /\ UNCHANGED <<questions, min_similarity_score, compute_statistics,
                   metadata_store, raw_results, match_idx, result_entries,
                   processed_results, metadata_fetches, response>>
    /\ UNCHANGED outsideSearch

\* VectorSearchClient.find_neighbors, called by search.
FindNeighbors ==
    /\ search_pc = "find_neighbors"
    /\ \/ /\ raw_results' \in RawResults(Len(questions))
          /\ search_pc' = "process"
          /\ UNCHANGED search_raised
       \/ /\ search_raised' = WrapSearchError("SearchOperationError")
          /\ search_pc' = "done"
          /\ UNCHANGED raw_results
    /\ UNCHANGED <<questions, min_similarity_score, compute_statistics,
                   metadata_store, match_idx, result_entries,
                   processed_results, metadata_fetches, response>>
    /\ UNCHANGED outsideSearch

\* Mutant of similarity_score: the distance is not halved.
similarity_score_unhalved(distance) == FixedPointOne - distance

\* "Convert distance to similarity score": 1.0 - (match.distance / 2.0).
similarity_score(distance) == FixedPointOne - (distance \div 2)

\* Mutant of BelowThreshold: a score equal to the threshold is dropped too.
BelowOrAtThreshold(score, threshold) == score <= threshold

\* `if similarity_score < min_similarity_score: continue`.
BelowThreshold(score, threshold) == score < threshold

\* Mutant of get_text_metadata: every id is answered None.
get_text_metadata_none(store, data_point_id) == None

\* FirestoreManager.get_text_metadata when the store answers: doc.to_dict()
\* if doc.exists, else None.
get_text_metadata(store, data_point_id) ==
    IF store[data_point_id].exists THEN store[data_point_id].data ELSE None

\* `if metadata:` of _process_search_results.
HasMetadata(metadata) == metadata # None

ResultEntry(match, score, metadata) ==
    [data_point_id |-> match.id, similarity_score |-> score,
     metadata |-> metadata]

\* Mutant of AppendEntry: the entry is put in front of the list.
PrependEntry(entries, entry) == <<entry>> \o entries

\* `result_entries.append({...})`: the entry goes to the end of the list.
AppendEntry(entries, entry) == Append(entries, entry)

\* The question _process_search_results is at: zip(questions, raw_results).
QuestionIdx == Len(processed_results) + 1

\* Mutant of CallGetTextMetadata: the store is asked twice for the id.
CallGetTextMetadataTwice(fetches, data_point_id) ==
    Append(Append(fetches, data_point_id), data_point_id)

\* `self.firestore_manager.get_text_metadata(FIRESTORE_COLLECTION, match.id)`:
\* one call of the store, recorded in the order the calls are made.
CallGetTextMetadata(fetches, data_point_id) == Append(fetches, data_point_id)

\* The part of an iteration of `for match in question_results` that follows
\* the threshold test: the metadata fetch and the append.
FetchAndAppend(match, score) ==
    /\ metadata_fetches' = CallGetTextMetadata(metadata_fetches, match.id)
    /\ \/ \* the store answers
          LET metadata == get_text_metadata(metadata_store, match.id) IN
          /\ result_entries' =
                IF HasMetadata(metadata)
                THEN AppendEntry(result_entries,
                                 ResultEntry(match, score, metadata))
                ELSE result_entries
          /\ match_idx' = match_idx + 1
          /\ UNCHANGED <<search_pc, search_raised>>
       \/ \* the store call raises GoogleAPIError
          /\ search_raised' = WrapSearchError("GoogleAPIError")
          /\ search_pc' = "done"
          /\ UNCHANGED <<result_entries, match_idx>>

\* One iteration of `for match in question_results`.
ProcessMatch ==
    /\ search_pc = "process"
    /\ QuestionIdx <= Len(questions)
    /\ match_idx <= Len(raw_results[QuestionIdx])
    /\ LET match == raw_results[QuestionIdx][match_idx]
           score == similarity_score(match.distance)
       IN  IF BelowThreshold(score, min_similarity_score)
           THEN /\ match_idx' = match_idx + 1
                /\ UNCHANGED <<result_entries, metadata_fetches, search_pc,
                               search_raised>>
           ELSE FetchAndAppend(match, score)
    /\ UNCHANGED <<questions, min_similarity_score, compute_statistics,
                   metadata_store, raw_results, processed_results, response>>
    /\ UNCHANGED outsideSearch

\* The end of an iteration of `for question, question_results in zip(...)`.
FinishQuestion ==
    /\ search_pc = "process"
    /\ QuestionIdx <= Len(questions)
    /\ match_idx > Len(raw_results[QuestionIdx])
    /\ processed_results' =
          Append(processed_results,
                 [question |-> questions[QuestionIdx],
                  results |-> result_entries])
    /\ result_entries' = <<>>
    /\ match_idx' = 1
    /\ UNCHANGED <<questions, min_similarity_score, compute_statistics,
                   metadata_store, raw_results, search_pc, metadata_fetches,
                   search_raised, response>>
    /\ UNCHANGED outsideSearch

\* `{score:.4f}` of a score of the fixed-point unit: its ten-thousandths.
Round4F(score) == score * (10000 \div FixedPointOne)

\* The default of to_summary_text's max_matches.
DefaultMaxMatches == 5

\* Mutant of SliceTo: the list is not cut.
SliceToWhole(list, stop) == list

\* The slice `list[:stop]`: the first stop elements, all of them when there
\* are fewer, and all but the last -stop for a negative stop.
SliceTo(list, stop) ==
    LET n == IF stop >= 0 THEN Min(stop, Len(list))
             ELSE IF Len(list) + stop > 0 THEN Len(list) + stop ELSE 0
    IN  [i \in 1..n |-> list[i]]

\* metadata.get('filename', 'N/A').
FilenameOf(metadata) ==
    IF "filename" \in DOMAIN metadata THEN metadata.filename ELSE "N/A"

\* ResultFormatter.to_summary_text: the parts it joins, per result the
\* "Query:" line, the "Top n matches:" line and per listed match its rank,
\* its score with four decimals and the file name of its metadata.
to_summary_text(results, cap) ==
    [q \in 1..Len(results) |->
        LET matches == SliceTo(results[q].results, cap) IN
        [query |-> results[q].question,
         top |-> Len(matches),
         lines |-> [i \in 1..Len(matches) |->
                      [rank |-> i,
                       score |-> Round4F(matches[i].similarity_score),
                       file |-> FilenameOf(matches[i].metadata)]]]]

\* ResultFormatter.to_detailed_dict: per result the query, the match count
\* and the matches (id and score; the scores here are multiples of 0.5,
\* which round(_, 4) leaves as they are).
to_detailed_dict(results) ==
    [q \in 1..Len(results) |->
        [query |-> results[q].question,
         match_count |-> Len(results[q].results),
         matches |-> [m \in 1..Len(results[q].results) |->
                        [id |-> results[q].results[m].data_point_id,
                         score |-> results[q].results[m].similarity_score]]]]

\* ResultAnalyzer.calculate_statistics: the values it extracts, the scores of
\* every match of every result.
RECURSIVE StatisticsValues(_)
StatisticsValues(results) ==
    IF results = <<>> THEN <<>>
    ELSE [m \in 1..Len(Head(results).results) |->
             Head(results).results[m].similarity_score]
         \o StatisticsValues(Tail(results))

\* Mutant of StatisticsValues' use in calculate_statistics: only the matches
\* of the first result are aggregated.
ExtractValuesFirstOnly(results) ==
    IF results = <<>> THEN <<>>
    ELSE [m \in 1..Len(Head(results).results) |->
             Head(results).results[m].similarity_score]

\* "Extract numerical values": the values calculate_statistics aggregates.
ExtractValues(results) == StatisticsValues(results)

\* calculate_statistics raises ValueError for an empty results list and
\* when no value was found.
StatisticsRaise(results) == results = <<>> \/ ExtractValues(results) = <<>>

RECURSIVE SumOf(_)
SumOf(values) ==
    IF values = <<>> THEN 0 ELSE Head(values) + SumOf(Tail(values))

RECURSIVE SumOfSquares(_)
SumOfSquares(values) ==
    IF values = <<>> THEN 0
    ELSE Head(values) * Head(values) + SumOfSquares(Tail(values))

\* sorted(values), by insertion.
RECURSIVE Sorted(_)
Sorted(values) ==
    IF values = <<>> THEN <<>>
    ELSE LET rest == Sorted(Tail(values))
             smaller == SelectSeq(rest, LAMBDA v : v <= Head(values))
             larger == SelectSeq(rest, LAMBDA v : v > Head(values))
         IN  smaller \o <<Head(values)>> \o larger

\* The statistics are exact fractions num/den of the fixed-point unit.
Fraction(num, den) == [num |-> num, den |-> den]

\* statistics.mean, statistics.median, min and max of a non-empty list.
MeanOf(values) == Fraction(SumOf(values), Len(values))

MedianOf(values) ==
    LET data == Sorted(values)
        n == Len(data)
    IN  IF n % 2 = 1 THEN Fraction(data[n \div 2 + 1], 1)
        ELSE Fraction(data[n \div 2] + data[n \div 2 + 1], 2)

MinOf(values) == Fraction(Sorted(values)[1], 1)

MaxOf(values) == Fraction(Sorted(values)[Len(values)], 1)

\* statistics.stdev of two or more values, kept as its square, the sample
\* variance (n * sum(x^2) - sum(x)^2) / (n * (n - 1)).
VarianceOf(values) ==
    LET n == Len(values)
    IN  Fraction(n * SumOfSquares(values) - SumOf(values) * SumOf(values),
                 n * (n - 1))

\* calculate_statistics when it does not raise: the StatisticalSummary, with
\* std_dev None for a single value.
calculate_statistics(results) ==
    LET values == ExtractValues(results)
    IN  [count |-> Len(values),
         mean |-> MeanOf(values),
         median |-> MedianOf(values),
         min_value |-> MinOf(values),
         max_value |-> MaxOf(values),
         std_dev |-> IF Len(values) > 1
                     THEN <<VarianceOf(values)>> ELSE None]

\* round(x, 4) of a non-negative fraction of the fixed-point unit, counted in
\* ten-thousandths of 1.0 (no fraction met here lies half way between two).
TenThousandthsPerUnit == 10000 \div FixedPointOne

Round4(x) == (2 * x.num * TenThousandthsPerUnit + x.den) \div (2 * x.den)

\* The largest r in lo..hi with r = 0 or (2r - 1)^2 <= 4 * square: the square
\* root rounded to the nearest integer.
RECURSIVE RoundedRoot(_, _, _)
RoundedRoot(square, lo, hi) ==
    IF lo = hi THEN lo
    ELSE LET mid == (lo + hi + 1) \div 2
         IN  IF (2 * mid - 1) * (2 * mid - 1) <= 4 * square
             THEN RoundedRoot(square, mid, hi)
             ELSE RoundedRoot(square, lo, mid - 1)

\* round(std_dev, 4), from the variance, in ten-thousandths of 1.0.
Round4Root(variance) ==
    LET scale == TenThousandthsPerUnit * TenThousandthsPerUnit
        square == (variance.num \div variance.den) * scale
                  + ((variance.num % variance.den) * scale) \div variance.den
    IN  RoundedRoot(square, 0, 2 * 10000)

\* StatisticalSummary.to_dict: the rounded fields, std_dev only when it is
\* not None.
to_dict(stats) ==
    LET result == [count |-> stats.count,
                   mean |-> Round4(stats.mean),
                   median |-> Round4(stats.median),
                   min_value |-> Round4(stats.min_value),
                   max_value |-> Round4(stats.max_value)]
    IN  IF stats.std_dev # None
        THEN [k \in DOMAIN result \cup {"std_dev"} |->
                 IF k = "std_dev" THEN Round4Root(stats.std_dev[1])
                 ELSE result[k]]
        ELSE result

\* Mutant of StatisticsEnabled: the statistics are computed whatever the
\* parameter says.
StatisticsAlwaysEnabled(flag) == TRUE

\* `if params.compute_statistics:`.
StatisticsEnabled(flag) == flag

\* The end of search: formatting, the optional statistics, the response.
Respond ==
    /\ search_pc = "process"
    /\ QuestionIdx > Len(questions)
    /\ search_pc' = "done"
    /\ IF /\ StatisticsEnabled(compute_statistics)
          /\ StatisticsRaise(processed_results)
       THEN /\ search_raised' = WrapSearchError("ValueError")
            /\ UNCHANGED response
       ELSE /\ response' =
                  [done |-> TRUE,
                   results |-> to_detailed_dict(processed_results),
                   summary |-> to_summary_text(processed_results,
                                               DefaultMaxMatches),
                   statistics |->
                      IF StatisticsEnabled(compute_statistics)
                      THEN to_dict(calculate_statistics(processed_results))
                      ELSE None]
            /\ UNCHANGED search_raised
    /\ UNCHANGED <<questions, min_similarity_score, compute_statistics,
                   metadata_store, raw_results, match_idx, result_entries,
                   processed_results, metadata_fetches>>
    /\ UNCHANGED outsideSearch

\* ============================== metadata store (vector_store/utils/firestore_ops.py)
\* Timestamps are ticks of a clock that never runs backwards.
MaxClock == 3

\* The additional_metadata a caller of save_text_metadata passes: none, or a
\* dictionary with one field.
AdditionalMetadata == {None, [category |-> 1]}

\* The updates a caller of update_text_metadata passes: a field that exists,
\* a field that may not exist yet, and a dictionary with an updated_at of
\* the caller's own (0, a time before every tick of the clock).
Updates ==
    {[text |-> 2], [category |-> 2], [text |-> 2, updated_at |-> 0]}

\* dict.update: the fields of `other` are set, the others are kept.
DictUpdate(dict, other) ==
    [k \in DOMAIN dict \cup DOMAIN other |->
        IF k \in DOMAIN other THEN other[k] ELSE dict[k]]

\* A call of datetime.now() returns the clock, which may have advanced by one
\* tick since the previous call.
Ticks(from) == {t \in {from, from + 1} : t <= MaxClock}

NoOp == [op |-> "none", id |-> "none", outcome |-> "none", stamp |-> 0,
         value |-> None]

StoreInit ==
    /\ clock = 1
    /\ store_op = NoOp

\* The dictionary save_text_metadata builds: the base fields, then the
\* additional metadata merged in `if additional_metadata:`.
SavedDocument(data_point_id, text, created_at, updated_at, additional) ==
    LET metadata == [data_point_id |-> data_point_id, text |-> text,
                     created_at |-> created_at, updated_at |-> updated_at]
    IN  IF additional # None
        THEN DictUpdate(metadata, additional)
        ELSE metadata

\* doc_ref.set(metadata): the document is created or replaced as a whole.
DocSet(store, data_point_id, metadata) ==
    [store EXCEPT ![data_point_id] = [exists |-> TRUE, data |-> metadata]]

\* FirestoreManager.save_text_metadata.
SaveTextMetadata(data_point_id, text, additional_metadata) ==
    /\ \/ \E created_at \in Ticks(clock) : \E updated_at \in Ticks(created_at) :
            /\ metadata_store' =
                  DocSet(metadata_store, data_point_id,
                         SavedDocument(data_point_id, text, created_at,
                                       updated_at, additional_metadata))
            /\ clock' = updated_at
            /\ store_op' = [op |-> "save", id |-> data_point_id,
                            outcome |-> "ok", stamp |-> updated_at,
                            value |-> [text |-> text,
                                       extra |-> additional_metadata,
                                       created_at |-> created_at]]
       \/ \* doc_ref.set raises GoogleAPIError, which is raised again
          /\ store_op' = [op |-> "save", id |-> data_point_id,
                          outcome |-> "GoogleAPIError", stamp |-> clock,
                          value |-> None]
          /\ UNCHANGED <<metadata_store, clock>>
    /\ UNCHANGED outsideStore

\* Mutant of StampUpdates: an updated_at of the caller is kept.
StampUpdatesUnlessGiven(updates, now) ==
    DictUpdate([updated_at |-> now], updates)

\* `updates['updated_at'] = datetime.now()`.
StampUpdates(updates, now) == DictUpdate(updates, [updated_at |-> now])

\* doc_ref.update(updates): the named fields of an existing document are set,
\* its other fields are kept.
DocUpdate(store, data_point_id, updates) ==
    [store EXCEPT ![data_point_id].data = DictUpdate(@, updates)]

\* FirestoreManager.update_text_metadata.
UpdateTextMetadata(data_point_id, updates) ==
    /\ \/ /\ metadata_store[data_point_id].exists
          /\ \E now \in Ticks(clock) :
               /\ metadata_store' =
                     DocUpdate(metadata_store, data_point_id,
                               StampUpdates(updates, now))
               /\ clock' = now
               /\ store_op' = [op |-> "update", id |-> data_point_id,
                               outcome |-> "ok", stamp |-> now,
                               value |-> updates]
       \/ \* doc_ref.update raises: no such document (NotFound), or the store
          \* fails; both are GoogleAPIError and are raised again
          /\ store_op' = [op |-> "update", id |-> data_point_id,
                          outcome |-> "GoogleAPIError", stamp |-> clock,
                          value |-> updates]
          /\ UNCHANGED <<metadata_store, clock>>
    /\ UNCHANGED outsideStore

\* FirestoreManager.get_text_metadata.
GetTextMetadata(data_point_id) ==
    /\ \/ store_op' = [op |-> "get", id |-> data_point_id, outcome |-> "ok",
                       stamp |-> clock,
                       value |-> get_text_metadata(metadata_store,
                                                   data_point_id)]
       \/ \* doc_ref.get raises GoogleAPIError, which is raised again
          store_op' = [op |-> "get", id |-> data_point_id,
                       outcome |-> "GoogleAPIError", stamp |-> clock,
                       value |-> None]
    /\ UNCHANGED <<metadata_store, clock>>
    /\ UNCHANGED outsideStore

\* ===================== vector index client (common/utils/vector_search.py)
\* The calls a client may issue to the index endpoint in this model.
MaxClientCalls == 5

EndpointNames == {"endpoint_a", "endpoint_b"}

\* What an external call may raise: an error of the API, or anything else.
ExternalErrors == {"GoogleAPIError", "ConnectionError"}

\* A call of a client method: what the external call it issued did ("none"
\* when none was issued, "ok", or the error it raised) and what the method
\* raised.
ClientCall(op, arg, external, error) ==
    [op |-> op, arg |-> arg, external |-> external, raised |-> error]

NoCall == ClientCall("none", "none", "none", NoError)

ClientInit ==
    /\ endpoint = "None"
    /\ external_calls = 0
    /\ client_op = NoCall

\* The two handlers of a client method: the error of the external call
\* leaves as the error class of the method, `from e`.
WrapClientError(type, cause) == [type |-> type, cause |-> cause, label |-> 0]

\* VectorSearchClient.initialize_endpoint: self.endpoint is assigned when
\* aiplatform.init and the MatchingEngineIndexEndpoint constructor returned.
InitializeEndpoint(endpoint_name) ==
    /\ \/ /\ endpoint' = endpoint_name
          /\ client_op' = ClientCall("initialize_endpoint", endpoint_name,
                                     "ok", NoError)
       \/ \E e \in ExternalErrors :
            /\ client_op' =
                  ClientCall("initialize_endpoint", endpoint_name, e,
                             WrapClientError("EndpointInitializationError", e))
            /\ UNCHANGED endpoint
    /\ UNCHANGED external_calls
    /\ UNCHANGED outsideClient

\* Mutant of EndpointMissing: the guard never fires.
EndpointNeverMissing(ep) == FALSE

\* `if not self.endpoint:` of find_neighbors and get_datapoints.
EndpointMissing(ep) == ep = "None"

NotInitialized == [type |-> "ValueError", cause |-> "none", label |-> 0]

\* Mutant of SearchFailure: the error of the external call is raised again
\* as it is.
SearchFailureReraised(e) == [type |-> e, cause |-> "none", label |-> 0]

\* The two `except` clauses of find_neighbors.
SearchFailure(e) == WrapClientError("SearchOperationError", e)

\* The two `except` clauses of get_datapoints.
DatapointFailure(e) == WrapClientError("DatapointOperationError", e)

\* A method that needs the endpoint: the guard, then one external call, whose
\* error e leaves as failure[e].
EndpointCall(op, failure) ==
    /\ IF EndpointMissing(endpoint)
       THEN /\ client_op' = ClientCall(op, endpoint, "none", NotInitialized)
            /\ UNCHANGED external_calls
       ELSE /\ external_calls < MaxClientCalls
            /\ external_calls' = external_calls + 1
            /\ \/ client_op' = ClientCall(op, endpoint, "ok", NoError)
               \/ \E e \in ExternalErrors :
                    client_op' = ClientCall(op, endpoint, e, failure[e])
    /\ UNCHANGED endpoint
    /\ UNCHANGED outsideClient

\* VectorSearchClient.find_neighbors.
ClientFindNeighbors ==
    EndpointCall("find_neighbors", [e \in ExternalErrors |-> SearchFailure(e)])

\* VectorSearchClient.get_datapoints.
GetDatapoints ==
    EndpointCall("get_datapoints",
                 [e \in ExternalErrors |-> DatapointFailure(e)])

\* ============================ ingestion (vector_store/setup_vector_search.py)
\* wait_for_operation gives up when more than timeout_minutes * 60 seconds
\* have passed; here the limit is a few check intervals.
TimeoutIntervals == 2

\* The texts handed to setup_vector_search, all valid.
SetupTexts(n) == [i \in 1..n |-> [filename |-> i, content |-> i]]

\* str(uuid.uuid4()): the i-th id drawn; no two are the same.
Uuid4(i) == i

NoOperation == "none"

SetupInit ==
    /\ \E n \in 0..MaxTexts : setup_texts = SetupTexts(n)
    /\ setup_pc = "process_texts"
    /\ datapoints = <<>>
    /\ metadata_list = <<>>
    /\ operation = NoOperation
    /\ elapsed = 0
    /\ wait_raised = NoError
    /\ setup_calls = <<>>
    /\ setup_raised = NoError
    /\ metadata_store = <<>>

\* A call to a service and what came of it.
Called(call, outcome) == Append(setup_calls, [call |-> call, outcome |-> outcome])

\* The `except Exception` of process_texts.
ProcessFailure(cause) == [type |-> "Exception", cause |-> cause, label |-> 0]

\* The `except Exception` of setup_vector_search: whatever was raised inside
\* leaves as a plain Exception, `from e`.
SetupFailure(e) == [type |-> "Exception", cause |-> e.type, label |-> 0]

\* setup_vector_search ends with the exception e raised inside its try block.
SetupFails(e) ==
    /\ setup_raised' = SetupFailure(e)
    /\ setup_pc' = "done"

\* The IndexDatapoints of process_texts: zip(data_point_ids, embeddings, texts).
Datapoints(texts) ==
    [i \in 1..Len(texts) |->
        [datapoint_id |-> Uuid4(i),
         feature_vector |-> EmbeddingOf(texts[i].content),
         crowding_tag |-> texts[i].filename]]

\* The metadata dictionaries of process_texts.
MetadataList(texts, now) ==
    [i \in 1..Len(texts) |->
        [data_point_id |-> Uuid4(i),
         filename |-> texts[i].filename,
         content |-> texts[i].content,
         additional_metadata |->
            [embedding_dimension |-> 1,
             content_length |-> texts[i].content,
             file_type |-> "markdown",
             content_type |-> "documentation",
             created_at |-> now]]]

\* VectorStoreSetup.process_texts, called first by setup_vector_search.
ProcessTexts ==
    /\ setup_pc = "process_texts"
    /\ \/ \* embed_texts returned one vector per text
          IF setup_texts = <<>>
          THEN \* embeddings[0] of an empty list
               /\ setup_calls' = Called("embed_texts", "ok")
               /\ SetupFails(ProcessFailure("IndexError"))
               /\ UNCHANGED <<datapoints, metadata_list>>
          ELSE /\ setup_calls' = Called("embed_texts", "ok")
               /\ datapoints' = Datapoints(setup_texts)
               /\ metadata_list' = MetadataList(setup_texts, clock)
               /\ setup_pc' = "create_index"
               /\ UNCHANGED setup_raised
       \/ \* embed_texts raised EmbeddingError
          /\ setup_calls' = Called("embed_texts", "EmbeddingError")
          /\ SetupFails(ProcessFailure("EmbeddingError"))
          /\ UNCHANGED <<datapoints, metadata_list>>
    /\ UNCHANGED <<setup_texts, operation, elapsed, wait_raised,
                   metadata_store>>
    /\ UNCHANGED outsideSetup

\* The `except GoogleAPIError` of create_index, create_endpoint and
\* wait_for_operation: raise GoogleAPIError(error_msg) from e.
ManagerFailure ==
    [type |-> "GoogleAPIError", cause |-> "GoogleAPIError", label |-> 0]

\* IndexManager.create_index / create_endpoint, as setup_vector_search calls
\* them: the operation is returned and waited for, or the call raises.
CreateResource(call, pc_wait) ==
    /\ setup_pc = call
    /\ \/ /\ setup_calls' = Called(call, "ok")
          /\ operation' = "running"
          /\ elapsed' = 0
          /\ setup_pc' = pc_wait
          /\ UNCHANGED setup_raised
       \/ /\ setup_calls' = Called(call, "GoogleAPIError")
          /\ SetupFails(ManagerFailure)
          /\ UNCHANGED <<operation, elapsed>>
    /\ UNCHANGED <<setup_texts, datapoints, metadata_list, wait_raised,
                   metadata_store>>
    /\ UNCHANGED outsideSetup

CreateIndex == CreateResource("create_index", "wait_index")

CreateEndpoint == CreateResource("create_endpoint", "wait_endpoint")

\* The service finishes the long-running operation, well or badly.
OperationFinishes ==
    /\ operation = "running"
    /\ operation' \in {"succeeded", "failed"}
    /\ UNCHANGED <<setup_texts, setup_pc, datapoints, metadata_list, elapsed,
                   wait_raised, setup_calls, setup_raised, metadata_store>>
    /\ UNCHANGED outsideSetup

\* Mutant of WaitFailure: the handler catches every exception.
WaitFailureCatchAll(raised_type) == ManagerFailure

\* What leaves wait_for_operation when raised_type is raised in its loop:
\* `except GoogleAPIError` catches an API error and lets the rest through.
WaitFailure(raised_type) ==
    IF raised_type = "GoogleAPIError"
    THEN ManagerFailure
    ELSE [type |-> raised_type, cause |-> "none", label |-> 0]

\* wait_for_operation raises: the error leaves it and ends the setup.
WaitRaises(raised_type, outcome) ==
    /\ wait_raised' = WaitFailure(raised_type)
    /\ setup_calls' = Called("wait_for_operation", outcome)
    /\ SetupFails(WaitFailure(raised_type))
    /\ UNCHANGED <<operation, elapsed>>

\* Mutant of TimedOut: the limit itself counts as exceeded (>= for >).
TimedOutAtLimit(seconds) == seconds >= TimeoutIntervals

\* `if time.time() - start_time > timeout_minutes * 60`.
TimedOut(seconds) == seconds > TimeoutIntervals

\* One iteration of `while True` of wait_for_operation.
WaitForOperation ==
    /\ setup_pc \in {"wait_index", "wait_endpoint"}
    /\ \/ \* operation.done() raises
          WaitRaises("GoogleAPIError", "poll failed")
       \/ \* operation.done(): operation.result() returns or raises
          /\ operation # "running"
          /\ IF operation = "succeeded"
             THEN /\ setup_calls' = Called("wait_for_operation", "ok")
                  /\ setup_pc' = IF setup_pc = "wait_index"
                                 THEN "create_endpoint" ELSE "save_metadata"
                  /\ operation' = NoOperation
                  /\ UNCHANGED <<elapsed, wait_raised, setup_raised>>
             ELSE WaitRaises("GoogleAPIError", "operation failed")
       \/ /\ operation = "running"
          /\ IF TimedOut(elapsed)
             THEN WaitRaises("TimeoutError", "timeout")
             ELSE \* time.sleep(DEPLOYMENT_CHECK_INTERVAL), which may oversleep
                  /\ elapsed' \in {elapsed + 1, elapsed + 2}
                  /\ UNCHANGED <<operation, setup_pc, wait_raised, setup_calls,
                                 setup_raised>>
    /\ UNCHANGED <<setup_texts, datapoints, metadata_list, metadata_store>>
    /\ UNCHANGED outsideSetup

\* batch_save_text_metadata reads metadata['data_point_id'] and
\* metadata['text'] of every dictionary: a missing key is a KeyError.
BatchSaveKeyError(list) ==
    \E i \in 1..Len(list) : {"data_point_id", "text"} \ DOMAIN list[i] # {}

\* The doc_data of batch_save_text_metadata for one dictionary.
BatchDocData(metadata, now) ==
    LET doc_data == [data_point_id |-> metadata.data_point_id,
                     text |-> metadata.text,
                     created_at |-> now, updated_at |-> now]
    IN  IF "additional_metadata" \in DOMAIN metadata
        THEN DictUpdate(doc_data, metadata.additional_metadata)
        ELSE doc_data

\* batch.commit(): every batch.set is applied, a later one over an earlier
\* one of the same id.
BatchCommit(store, list, now) ==
    LET ids == {list[i].data_point_id : i \in 1..Len(list)}
        last(id) == CHOOSE i \in 1..Len(list) :
                       /\ list[i].data_point_id = id
                       /\ \A j \in (i + 1)..Len(list) :
                             list[j].data_point_id # id
    IN  [id \in DOMAIN store \cup ids |->
            IF id \in ids
            THEN [exists |-> TRUE, data |-> BatchDocData(list[last(id)], now)]
            ELSE store[id]]

\* FirestoreManager.batch_save_text_metadata, as setup_vector_search calls it
\* with the metadata_list of process_texts. A KeyError is no GoogleAPIError:
\* it leaves the method as it is.
SaveMetadata ==
    /\ setup_pc = "save_metadata"
    /\ IF BatchSaveKeyError(metadata_list)
       THEN /\ setup_calls' = Called("batch_save_text_metadata", "KeyError")
            /\ SetupFails([type |-> "KeyError", cause |-> "none", label |-> 0])
            /\ UNCHANGED metadata_store
       ELSE \/ /\ metadata_store' =
                     BatchCommit(metadata_store, metadata_list, clock)
               /\ setup_calls' = Called("batch_save_text_metadata", "ok")
               /\ setup_pc' = "upsert_datapoints"
               /\ UNCHANGED setup_raised
            \/ /\ setup_calls' =
                     Called("batch_save_text_metadata", "GoogleAPIError")
               /\ SetupFails(ManagerFailure)
               /\ UNCHANGED metadata_store
    /\ UNCHANGED <<setup_texts, datapoints, metadata_list, operation, elapsed,
                   wait_raised>>
    /\ UNCHANGED outsideSetup

\* =============== single embedding with retries (common/utils/embeddings.py)
\* What a get_embeddings([text]) call may do: answer with the vector, answer
\* with an empty list (the [0] raises IndexError), or raise.
CallOutcomes == {"ok", "IndexError", "ServiceError"}

SingleInit ==
    /\ single_text \in 1..MaxTexts
    /\ retry_attempts \in 0..MAX_RETRY_ATTEMPTS
    /\ retry_delay \in {0, RETRY_DELAY_SECONDS}
    /\ attempt = 0
    /\ attempt_log = <<>>
    /\ slept = 0
    /\ single_pc = "loop"
    /\ single_raised = NoError
    /\ single_returned = NotReturned

\* Mutant of IsLastAttempt: the test is off by one and never holds in the loop.
IsLastAttemptOffByOne(a, attempts) == a = attempts

\* `if attempt == self.config.retry_attempts - 1`.
IsLastAttempt(a, attempts) == a = attempts - 1

\* `raise EmbeddingGenerationError(error_msg) from e`.
GenerationFailure(cause) ==
    [type |-> "EmbeddingGenerationError", cause |-> cause, label |-> 0]

\* One iteration of `for attempt in range(self.config.retry_attempts)`.
SingleAttempt ==
    /\ single_pc = "loop"
    /\ attempt < retry_attempts
    /\ \E outcome \in CallOutcomes :
         /\ attempt_log' = Append(attempt_log, outcome)
         /\ IF outcome = "ok"
            THEN /\ single_returned' = Returned(EmbeddingOf(single_text))
                 /\ single_pc' = "done"
                 /\ UNCHANGED <<attempt, slept, single_raised>>
            ELSE IF IsLastAttempt(attempt, retry_attempts)
            THEN /\ single_raised' = GenerationFailure(outcome)
                 /\ single_pc' = "done"
                 /\ UNCHANGED <<attempt, slept, single_returned>>
            ELSE /\ slept' = slept + retry_delay
                 /\ attempt' = attempt + 1
                 /\ UNCHANGED <<single_pc, single_raised, single_returned>>
    /\ UNCHANGED <<single_text, retry_attempts, retry_delay>>
    /\ UNCHANGED outsideSingle

\* range(retry_attempts) is exhausted: the function ends without a return
\* statement and returns None.
SingleLoopEnds ==
    /\ single_pc = "loop"
    /\ attempt >= retry_attempts
    /\ single_returned' = Returned(None)
    /\ single_pc' = "done"
    /\ UNCHANGED <<single_text, retry_attempts, retry_delay, attempt,
                   attempt_log, slept, single_raised>>
    /\ UNCHANGED outsideSingle

\* ------------------------------------------------------ result formatter
\* The matches a formatter is given: an id, a score of 0.0 or 1.0 and the
\* metadata of a saved text.
FormatMatches ==
    {[data_point_id |-> id, similarity_score |-> score,
      metadata |-> [filename |-> id, text |-> id]] :
        id \in DataPointIds, score \in {0, FixedPointOne}}

\* The results of n questions, at most MaxNeighbors matches in all.
FormatResults(n) ==
    UNION {
        {[q \in 1..n |->
            [question |-> q,
             results |-> [i \in 1..sizes[q] |->
                            flat[SumTo(sizes, q - 1) + i]]]] :
                flat \in [1..SumTo(sizes, n) -> FormatMatches]} :
        sizes \in {sz \in [1..n -> 0..MaxNeighbors] :
                     SumTo(sz, n) <= MaxNeighbors}}

FormatInit ==
    /\ \E n \in 0..MaxQuestions : fmt_results \in FormatResults(n)
    /\ max_matches \in 0..MaxNeighbors
    /\ fmt_pc = "to_detailed_dict"
    /\ fmt_detailed = <<>>
    /\ fmt_summary = <<>>

\* A call of to_detailed_dict.
FormatDetailed ==
    /\ fmt_pc = "to_detailed_dict"
    /\ fmt_detailed' = to_detailed_dict(fmt_results)
    /\ fmt_pc' = "to_summary_text"
    /\ UNCHANGED <<fmt_results, max_matches, fmt_summary>>
    /\ UNCHANGED outsideFormat

\* A call of to_summary_text.
FormatSummary ==
    /\ fmt_pc = "to_summary_text"
    /\ fmt_summary' = to_summary_text(fmt_results, max_matches)
    /\ fmt_pc' = "done"
    /\ UNCHANGED <<fmt_results, max_matches, fmt_detailed>>
    /\ UNCHANGED outsideFormat

\* ------------------------------------------------------- specifications
\* A component that is not running: its variables at rest.
EmbIdle ==
    /\ text_info_list = <<>>
    /\ batch_size = 1
    /\ pc = "idle"
    /\ prepared_texts = <<>>
    /\ future_state = <<>>
    /\ future_result = <<>>
    /\ collected = {}
    /\ all_embeddings = <<>>
    /\ api_calls = <<>>
    /\ raised = NoError
    /\ returned = NotReturned

SearchOwnIdle ==
    /\ questions = <<>>
    /\ min_similarity_score = 0
    /\ compute_statistics = TRUE
    /\ raw_results = <<>>
    /\ search_pc = "idle"
    /\ match_idx = 1
    /\ result_entries = <<>>
    /\ processed_results = <<>>
    /\ metadata_fetches = <<>>
    /\ search_raised = NoError
    /\ response = NoResponse

SearchIdle ==
    /\ SearchOwnIdle
    /\ metadata_store = [id \in DataPointIds |-> NoDocument]

SetupIdle ==
    /\ setup_texts = <<>>
    /\ setup_pc = "idle"
    /\ datapoints = <<>>
    /\ metadata_list = <<>>
    /\ operation = NoOperation
    /\ elapsed = 0
    /\ wait_raised = NoError
    /\ setup_calls = <<>>
    /\ setup_raised = NoError

SingleIdle ==
    /\ single_text = 0
    /\ retry_attempts = 0
    /\ retry_delay = 0
    /\ attempt = 0
    /\ attempt_log = <<>>
    /\ slept = 0
    /\ single_pc = "idle"
    /\ single_raised = NoError
    /\ single_returned = NotReturned

FormatIdle ==
    /\ fmt_results = <<>>
    /\ max_matches = 0
    /\ fmt_pc = "idle"
    /\ fmt_detailed = <<>>
    /\ fmt_summary = <<>>

StoreIdle ==
    /\ clock = 0
    /\ store_op = NoOp

ClientIdle ==
    /\ endpoint = "None"
    /\ external_calls = 0
    /\ client_op = NoCall

\* generate_embeddings.
Init ==
    EmbInit /\ SearchIdle /\ StoreIdle /\ ClientIdle /\ SetupIdle
    /\ SingleIdle /\ FormatIdle

Next ==
    \/ ValidateText
    \/ SubmitBatches
    \/ \E b \in 1..MaxTexts : StartBatch(b)
    \/ \E b \in 1..MaxTexts : FinishBatch(b)
    \/ \E b \in 1..MaxTexts : CollectBatch(b)
    \/ ShutdownAfterError
    \/ VerifyResults

Spec == Init /\ [][Next]_vars

\* generate_embeddings when every thread keeps running and every call of the
\* embedding service returns or raises.
SpecFair == Spec /\ WF_vars(Next)

\* search, once the query embeddings exist.
InitSearch ==
    SearchInit /\ EmbIdle /\ StoreIdle /\ ClientIdle /\ SetupIdle
    /\ SingleIdle /\ FormatIdle

NextSearch ==
    \/ GenerateQueryEmbeddings
    \/ FindNeighbors
    \/ ProcessMatch
    \/ FinishQuestion
    \/ Respond

SpecSearch == InitSearch /\ [][NextSearch]_vars

\* A call of generate_embeddings or a call of search.
InitEither == Init \/ InitSearch

NextEither == Next \/ NextSearch

SpecEither == InitEither /\ [][NextEither]_vars

\* The metadata store under the calls of its clients, from an empty store.
InitStore ==
    StoreInit /\ EmbIdle /\ SearchIdle /\ ClientIdle /\ SetupIdle
    /\ SingleIdle /\ FormatIdle

NextStore ==
    \/ \E id \in DataPointIds : \E text \in 1..2 :
          \E extra \in AdditionalMetadata : SaveTextMetadata(id, text, extra)
    \/ \E id \in DataPointIds : \E updates \in Updates :
          UpdateTextMetadata(id, updates)
    \/ \E id \in DataPointIds : GetTextMetadata(id)

SpecStore == InitStore /\ [][NextStore]_vars

\* A VectorSearchClient under the calls of its users, from construction.
InitClient ==
    ClientInit /\ EmbIdle /\ SearchIdle /\ StoreIdle /\ SetupIdle
    /\ SingleIdle /\ FormatIdle

NextClient ==
    \/ \E endpoint_name \in EndpointNames : InitializeEndpoint(endpoint_name)
    \/ ClientFindNeighbors
    \/ GetDatapoints

SpecClient == InitClient /\ [][NextClient]_vars

\* setup_vector_search, from its call to the save of the metadata. Every
\* metadata_list of process_texts makes batch_save_text_metadata raise, so
\* the statements after the save (upsert, deploy, the deployment state) are
\* never reached.
InitSetup ==
    SetupInit /\ EmbIdle /\ SearchOwnIdle /\ StoreIdle /\ ClientIdle
    /\ SingleIdle /\ FormatIdle

NextSetup ==
    \/ ProcessTexts
    \/ CreateIndex
    \/ CreateEndpoint
    \/ OperationFinishes
    \/ WaitForOperation
    \/ SaveMetadata

SpecSetup == InitSetup /\ [][NextSetup]_vars

\* The calling thread keeps running the loop of wait_for_operation: every
\* operation.done() and every time.sleep returns.
SpecSetupFair == SpecSetup /\ WF_vars(WaitForOperation)

\* _generate_single_embedding, from its call.
InitSingle ==
    SingleInit /\ EmbIdle /\ SearchIdle /\ StoreIdle /\ ClientIdle /\ SetupIdle
    /\ FormatIdle

NextSingle ==
    \/ SingleAttempt
    \/ SingleLoopEnds

InitFormat ==
    FormatInit /\ EmbIdle /\ SearchIdle /\ StoreIdle /\ ClientIdle
    /\ SetupIdle /\ SingleIdle

NextFormat ==
    \/ FormatDetailed
    \/ FormatSummary

SpecFormat == InitFormat /\ [][NextFormat]_vars

SpecSingle == InitSingle /\ [][NextSingle]_vars

\* ================================================================ claims
\* The vectors the embedding service computes for the input, in input order.
InputEmbeddings ==
    [i \in 1..Len(text_info_list) |-> EmbeddingOf(text_info_list[i].content)]

\* Every answer of the service so far held one vector per text of its batch,
\* in the order of the batch.
AllAnswersExact ==
    \A b \in DOMAIN future_state :
        future_state[b] = "ok" =>
            future_result[b] =
                [i \in 1..Len(Batch(prepared_texts, batch_size, b)) |->
                    EmbeddingOf(Batch(prepared_texts, batch_size, b)[i].content)]

\* C1: generate_embeddings returns the vectors in input order, whatever the
\* order in which the batches complete: the i-th returned vector is the
\* embedding of the i-th input text.
C1_InputOrder ==
    (returned.done /\ AllAnswersExact) => returned.value = InputEmbeddings

\* C2: a failed embedding call of a batch is retried up to retry_attempts
\* times; only when the attempts are exhausted does the failure abort the
\* operation.
C2_RetriedBeforeAbort ==
    (pc = "done" /\ raised.cause = "BatchProcessingError") =>
        api_calls[raised.label] = MAX_RETRY_ATTEMPTS

\* C3: generate_embeddings returns a list as long as the input or raises; it
\* never returns a list of another length, also when the service answers a
\* batch with too few or too many vectors.
C3_LengthOrRaise ==
    /\ returned.done => Len(returned.value) = Len(text_info_list)
    /\ pc = "done" =>
          \/ returned.done /\ raised = NoError
          \/ ~returned.done /\ raised.type = "EmbeddingError"

\* A batch was answered with the wrong number of vectors and the call raised.
C3_Witness ==
    /\ pc = "done"
    /\ raised.cause = "CountMismatch"
    /\ Len(all_embeddings) > Len(text_info_list)

\* A text exceeds max_tokens.
Exceeds(text_info) ==
    text_info.tokens.encodable /\ text_info.tokens.count > MAX_TOKENS_PER_TEXT

\* C4: validation is all-or-nothing and precedes every network call: when
\* some text of the input exceeds max_tokens, no batch is submitted and no
\* embedding request is issued, and the call fails in validation.
C4_ValidationBeforeCalls ==
    (\E i \in 1..Len(text_info_list) : Exceeds(text_info_list[i])) =>
        /\ future_state = <<>>
        /\ \A b \in DOMAIN api_calls : api_calls[b] = 0
        /\ ~returned.done
        /\ pc \in {"validate", "done"}
        /\ pc = "done" => raised.cause = "TokenizationError"

\* The call failed on an offending text that follows texts that passed.
C4_Witness ==
    /\ pc = "done"
    /\ raised.cause = "TokenizationError"
    /\ Len(prepared_texts) >= 1
    /\ Exceeds(text_info_list[Len(prepared_texts) + 1])
    /\ api_calls = <<>>

\* A text fails validation: it has max_tokens + 1 tokens or more, or it has
\* no token count at all.
Offending(text_info) ==
    \/ ~text_info.tokens.encodable
    \/ text_info.tokens.count >= MAX_TOKENS_PER_TEXT + 1

\* The index of the first offending text, Len + 1 when there is none.
FirstOffending ==
    LET bad == {i \in 1..Len(text_info_list) : Offending(text_info_list[i])}
    IN  IF bad = {} THEN Len(text_info_list) + 1
        ELSE CHOOSE i \in bad : \A j \in bad : i <= j

\* C5: a text of at most max_tokens tokens passes validation, a text of
\* max_tokens + 1 tokens or more fails it, and the error names the label of
\* the first offending text in input order.
C5_TokenLimitBoundary ==
    /\ prepared_texts = SubSeq(text_info_list, 1, Len(prepared_texts))
    /\ Len(prepared_texts) < FirstOffending
    /\ raised.cause = "TokenizationError" =>
          /\ FirstOffending <= Len(text_info_list)
          /\ raised.label = text_info_list[FirstOffending].filename
    /\ (pc # "validate" /\ raised.cause # "TokenizationError") =>
          prepared_texts = text_info_list

\* A text of exactly max_tokens tokens passed and the next one, of
\* max_tokens + 1 tokens, was named by the error.
C5_Witness ==
    /\ raised.cause = "TokenizationError"
    /\ raised.label = 2
    /\ text_info_list[1].tokens = TokenCount(MAX_TOKENS_PER_TEXT)
    /\ text_info_list[2].tokens = TokenCount(MAX_TOKENS_PER_TEXT + 1)
    /\ Len(prepared_texts) = 1

\* C6: when a batch fails, the whole call raises and returns no vectors,
\* even when every other batch succeeded.
C6_OneFailureFailsAll ==
    (\E b \in DOMAIN future_state : future_state[b] = "failed") =>
        /\ ~returned.done
        /\ pc = "done" => raised.type = "EmbeddingError"

\* One batch failed, another was collected with its vectors, the call raised.
C6_Witness ==
    /\ pc = "done"
    /\ raised.cause = "BatchProcessingError"
    /\ all_embeddings # <<>>
    /\ \E b \in DOMAIN future_state : future_state[b] = "ok"

\* ------------------------------------------------------- search claims
\* The neighbor the loop of _process_search_results is at.
CurrentMatch == raw_results[QuestionIdx][match_idx]

\* A step that completed an iteration of `for match in question_results`.
MatchHandled == search_pc = "process" /\ match_idx' = match_idx + 1

\* A step that appended a result entry.
EntryAppended == Len(result_entries') = Len(result_entries) + 1

\* A neighbor is at or above the threshold: 1 - distance/2 >= threshold,
\* both sides doubled.
PassesThreshold(nb) ==
    2 * FixedPointOne - nb.distance >= 2 * min_similarity_score

\* The neighbors of a list that are at or above the threshold and have a
\* document in the metadata store.
Qualifies(nb) == PassesThreshold(nb) /\ metadata_store[nb.id].exists

Qualifying(neighbors) == SelectSeq(neighbors, Qualifies)

\* C7: a neighbor is kept if and only if its similarity is greater than or
\* equal to min_similarity_score and its metadata exists: a neighbor exactly
\* at the threshold is retained, every neighbor strictly below is dropped.
C7_KeptIffAtOrAboveThreshold ==
    /\ [][MatchHandled => (EntryAppended <=> Qualifies(CurrentMatch))]_vars
    /\ [](\A q \in 1..Len(processed_results) :
            Len(processed_results[q].results) =
                Len(Qualifying(raw_results[q])))

\* A neighbor strictly below the threshold was dropped and the next one,
\* exactly at the threshold, was kept.
C7_Witness ==
    /\ search_pc = "process"
    /\ match_idx = 3
    /\ min_similarity_score > 0
    /\ 2 * FixedPointOne - raw_results[QuestionIdx][1].distance
          < 2 * min_similarity_score
    /\ 2 * FixedPointOne - raw_results[QuestionIdx][2].distance
          = 2 * min_similarity_score
    /\ Len(result_entries) = 1
    /\ result_entries[1].similarity_score = min_similarity_score

\* An entry carries the id of a neighbor and 1 - distance/2 of that
\* neighbor (doubled: 2 * score = 2 - distance).
BuiltFrom(entry, nb) ==
    /\ entry.data_point_id = nb.id
    /\ 2 * entry.similarity_score = 2 * FixedPointOne - nb.distance

\* C8: the similarity_score of every returned match equals 1 - distance/2 of
\* the neighbor it was built from, for every distance the index returns.
C8_ScoreIsOneMinusHalfDistance ==
    /\ [][(MatchHandled /\ EntryAppended) =>
            BuiltFrom(result_entries'[Len(result_entries')], CurrentMatch)]_vars
    /\ [](\A q \in 1..Len(processed_results) :
            \A m \in 1..Len(processed_results[q].results) :
                BuiltFrom(processed_results[q].results[m],
                          Qualifying(raw_results[q])[m]))

\* The search returned a match built from a neighbor at distance 1.0, with
\* score 0.5.
C8_Witness ==
    /\ response.done
    /\ \E q \in 1..Len(processed_results) :
          \E m \in 1..Len(processed_results[q].results) :
              /\ Qualifying(raw_results[q])[m].distance = FixedPointOne
              /\ 2 * processed_results[q].results[m].similarity_score
                    = FixedPointOne

\* Every entry built so far, of the finished questions and of the current one.
AllEntries ==
    {result_entries[m] : m \in 1..Len(result_entries)} \cup
    UNION {{processed_results[q].results[m] :
               m \in 1..Len(processed_results[q].results)} :
           q \in 1..Len(processed_results)}

\* C9: every similarity_score that appears in a search result lies in the
\* interval [0, 1].
C9_ScoreInUnitInterval ==
    \A entry \in AllEntries :
        0 <= entry.similarity_score /\ entry.similarity_score <= FixedPointOne

\* A neighbor passed the threshold and had no document in the store.
MissingMetadataSeen ==
    \E f \in 1..Len(metadata_fetches) :
        ~metadata_store[metadata_fetches[f]].exists

\* C10: a neighbor that passes the threshold and has no record in the
\* metadata store is dropped without raising: unless an external call failed,
\* the search still returns, and the matches of every query are those of its
\* other neighbors.
C10_MissingMetadataDropped ==
    (/\ search_pc = "done"
     /\ MissingMetadataSeen
     /\ search_raised.cause \notin
           {"EmbeddingError", "SearchOperationError", "GoogleAPIError"})
    => /\ search_raised = NoError
       /\ response.done
       /\ \A q \in 1..Len(questions) :
             response.results[q].match_count = Len(Qualifying(raw_results[q]))

\* The entries built from a list of neighbors kept in their order: the id
\* and the doubled score 2 - distance of each.
Kept(neighbors) ==
    [m \in 1..Len(Qualifying(neighbors)) |->
        [id |-> Qualifying(neighbors)[m].id,
         doubled |-> 2 * FixedPointOne - Qualifying(neighbors)[m].distance]]

IdsAndScores(entries) ==
    [m \in 1..Len(entries) |->
        [id |-> entries[m].data_point_id,
         doubled |-> 2 * entries[m].similarity_score]]

SortedByDistance(neighbors) ==
    \A i, j \in 1..Len(neighbors) :
        i < j => neighbors[i].distance <= neighbors[j].distance

ScoresNonIncreasing(entries) ==
    \A i, j \in 1..Len(entries) :
        i < j => entries[i].similarity_score >= entries[j].similarity_score

\* C11: the matches of a query are a subsequence of its neighbor list, the
\* kept neighbors in the order the index returned them, none reordered or
\* duplicated, at every point of the loop; and when the neighbors are sorted
\* by increasing distance the matches are sorted by non-increasing similarity.
C11_MatchesKeepNeighborOrder ==
    /\ \A q \in 1..Len(processed_results) :
          /\ IdsAndScores(processed_results[q].results) = Kept(raw_results[q])
          /\ SortedByDistance(raw_results[q]) =>
                ScoresNonIncreasing(processed_results[q].results)
    /\ (search_pc = "process" /\ QuestionIdx <= Len(questions)) =>
          IdsAndScores(result_entries) =
             Kept(SubSeq(raw_results[QuestionIdx], 1, match_idx - 1))

\* A query whose three neighbors came sorted by distance, the middle one
\* dropped: its two matches are the first and the third, in that order.
C11_Witness ==
    \E q \in 1..Len(processed_results) :
        /\ Len(raw_results[q]) = 3
        /\ SortedByDistance(raw_results[q])
        /\ raw_results[q][1].distance < raw_results[q][3].distance
        /\ ~Qualifies(raw_results[q][2])
        /\ Len(processed_results[q].results) = 2
        /\ processed_results[q].results[1].similarity_score
              > processed_results[q].results[2].similarity_score

\* ------------------------------------------------------ batching claims
\* ceil(n / bs): the least k with k * bs >= n.
CeilDiv(n, bs) == CHOOSE k \in 0..n : k * bs >= n /\ (k = 0 \/ (k - 1) * bs < n)

\* The first b batches, one after the other.
RECURSIVE BatchesUpTo(_)
BatchesUpTo(b) ==
    IF b = 0 THEN <<>>
    ELSE BatchesUpTo(b - 1) \o Batch(prepared_texts, batch_size, b)

\* The batches were cut and submitted.
Submitted == pc \in {"collect", "shutdown"} \/ (pc = "done" /\ collected # {})
                \/ (pc = "done" /\ returned.done)

\* C19: the N validated texts are cut into ceil(N / batch_size) contiguous
\* batches, each of exactly batch_size texts except possibly the last, which
\* is not empty, and the batches one after the other are the input; one
\* request is issued per batch, never a second one, and none when N = 0.
C19_ContiguousBatches ==
    Submitted =>
        LET n == Len(prepared_texts)
            k == CeilDiv(n, batch_size)
        IN  /\ DOMAIN future_state = 1..k
            /\ DOMAIN api_calls = 1..k
            /\ \A b \in 1..k :
                  /\ b < k => Len(Batch(prepared_texts, batch_size, b)) = batch_size
                  /\ Len(Batch(prepared_texts, batch_size, b)) \in 1..batch_size
                  /\ api_calls[b] =
                        (IF future_state[b] = "queued" THEN 0 ELSE 1)
                  /\ pc = "done" => api_calls[b] = 1
            /\ BatchesUpTo(k) = prepared_texts
            /\ n = 0 => api_calls = <<>>

\* Three texts with batch_size 2 were embedded: a full batch and a last batch
\* of one text, one request each.
C19_Witness ==
    /\ pc = "done"
    /\ returned.done
    /\ Len(prepared_texts) = 3
    /\ batch_size = 2
    /\ api_calls = <<1, 1>>
    /\ Len(Batch(prepared_texts, batch_size, 2)) = 1

\* The vectors of the batches collected so far that succeeded, counted.
RECURSIVE CollectedLength(_)
CollectedLength(bs) ==
    IF bs = {} THEN 0
    ELSE LET b == CHOOSE x \in bs : TRUE
         IN  (IF future_state[b] = "ok" THEN Len(future_result[b]) ELSE 0)
             + CollectedLength(bs \ {b})

\* A step of a worker thread: a batch starts or finishes.
WorkerStep == future_state # <<>> /\ future_state' # future_state

\* A step in which the calling thread takes one finished batch from
\* as_completed.
CollectStep(b) ==
    /\ pc = "collect"
    /\ b \notin collected
    /\ collected' = collected \cup {b}
    /\ future_state' = future_state

\* C20: all_embeddings is modified only by the collecting thread, exactly
\* once per successfully completed batch (by the vectors of that batch), and
\* never by a worker thread.
C20_OnlyCollectorExtends ==
    /\ [][/\ WorkerStep => all_embeddings' = all_embeddings
          /\ all_embeddings' # all_embeddings =>
                \E b \in DOMAIN future_state :
                    /\ CollectStep(b)
                    /\ future_state[b] = "ok"
          /\ \A b \in DOMAIN future_state :
                (CollectStep(b) /\ future_state[b] = "ok") =>
                    all_embeddings' = all_embeddings \o future_result[b]]_vars
    /\ [](Len(all_embeddings) = CollectedLength(collected))

\* The vectors of one batch are in all_embeddings while a worker thread is
\* still running another batch.
C20_Witness ==
    /\ pc = "collect"
    /\ all_embeddings # <<>>
    /\ \E b \in collected : future_state[b] = "ok"
    /\ \E b \in DOMAIN future_state : future_state[b] = "running"

\* -------------------------------------------------- metadata store claims
\* The step is a save that follows a save of the same id with the same text
\* and the same additional metadata.
SavedAgain ==
    /\ store_op.op = "save" /\ store_op.outcome = "ok"
    /\ store_op'.op = "save" /\ store_op'.outcome = "ok"
    /\ store_op'.id = store_op.id
    /\ store_op'.value.text = store_op.value.text
    /\ store_op'.value.extra = store_op.value.extra

\* C13: saving identical metadata for the same id twice with
\* save_text_metadata leaves a record whose created_at is the value the first
\* write set and whose updated_at is the value the second write set.
C13_CreatedAtKeptOnResave ==
    [][SavedAgain =>
         /\ metadata_store'[store_op'.id].data.created_at
               = store_op.value.created_at
         /\ metadata_store'[store_op'.id].data.updated_at = store_op'.stamp]_vars

\* The step is an update_text_metadata that succeeded.
Updated == store_op'.op = "update" /\ store_op'.outcome = "ok"

\* C14: update_text_metadata changes only the fields named in updates plus
\* updated_at, every other field of the record and every other record keep
\* their values, and updated_at is the time of the update even when the
\* caller supplied an updated_at of its own.
C14_UpdateMergesAndStamps ==
    [][Updated =>
         LET id == store_op'.id
             updates == store_op'.value
             old == metadata_store[id].data
             new == metadata_store'[id].data
         IN  /\ metadata_store[id].exists
             /\ metadata_store'[id].exists
             /\ DOMAIN new = DOMAIN old \cup DOMAIN updates \cup {"updated_at"}
             /\ \A k \in DOMAIN old \ (DOMAIN updates \cup {"updated_at"}) :
                   new[k] = old[k]
             /\ \A k \in DOMAIN updates \ {"updated_at"} : new[k] = updates[k]
             /\ new.updated_at = store_op'.stamp
             /\ store_op'.stamp >= clock
             /\ store_op'.stamp = clock'
             /\ \A other \in DataPointIds \ {id} :
                   metadata_store'[other] = metadata_store[other]]_vars

\* An update whose dictionary held an updated_at of the caller was applied:
\* the record has the time of the update, its new text and its old created_at.
C14_Witness ==
    /\ store_op.op = "update"
    /\ store_op.outcome = "ok"
    /\ "updated_at" \in DOMAIN store_op.value
    /\ store_op.value.updated_at < store_op.stamp
    /\ metadata_store[store_op.id].data.updated_at = store_op.stamp
    /\ metadata_store[store_op.id].data.text = 2
    /\ metadata_store[store_op.id].data.created_at < store_op.stamp

\* C15: get_text_metadata returns None, and raises nothing of its own, for
\* every id that has no record, returns the stored record for every id that
\* has one, and leaves the store as it was; the only error that leaves it is
\* the GoogleAPIError of a failed store call.
C15_GetReturnsRecordOrNone ==
    [][store_op'.op = "get" =>
         /\ metadata_store' = metadata_store
         /\ store_op'.outcome \in {"ok", "GoogleAPIError"}
         /\ store_op'.outcome = "ok" =>
               IF metadata_store[store_op'.id].exists
               THEN store_op'.value = metadata_store[store_op'.id].data
               ELSE store_op'.value = None]_vars

\* A get of an id without a record returned None while the store holds the
\* record of another id.
C15_Witness ==
    /\ store_op.op = "get"
    /\ store_op.outcome = "ok"
    /\ ~metadata_store[store_op.id].exists
    /\ store_op.value = None
    /\ \E id \in DataPointIds : metadata_store[id].exists

\* ---------------------------------------------------- index client claims
\* The external index call of the last find_neighbors raised.
ExternalSearchFailed ==
    client_op.op = "find_neighbors" /\ client_op.external \in ExternalErrors

\* C17 as stated: an error raised by the external index call inside
\* find_neighbors reaches the caller unchanged, the same error.
C17_ErrorUnchanged ==
    ExternalSearchFailed =>
        /\ client_op.raised.type = client_op.external
        /\ client_op.raised.cause = "none"

\* C17: an error raised by the external index call inside find_neighbors
\* reaches the caller as a SearchOperationError whose cause is that error.
C17_ErrorWrapped ==
    ExternalSearchFailed =>
        /\ client_op.raised.type = "SearchOperationError"
        /\ client_op.raised.cause = client_op.external

\* The index call of an initialized client raised GoogleAPIError and
\* find_neighbors raised SearchOperationError.
C17_Witness ==
    /\ client_op.op = "find_neighbors"
    /\ client_op.arg \in EndpointNames
    /\ client_op.external = "GoogleAPIError"
    /\ client_op.raised.type = "SearchOperationError"
    /\ external_calls > 0

\* The step is a call of find_neighbors or get_datapoints.
NeedsEndpoint == client_op'.op \in {"find_neighbors", "get_datapoints"}

\* The step is a call of initialize_endpoint that raised.
InitializeFailed ==
    /\ client_op'.op = "initialize_endpoint"
    /\ client_op'.raised # NoError

\* C18: find_neighbors and get_datapoints on a client whose endpoint is not
\* initialized raise ValueError without issuing an external call, and a
\* failed initialize_endpoint leaves the client as it was: uninitialized, or
\* with its previous endpoint.
C18_UninitializedRaises ==
    /\ [][(NeedsEndpoint /\ endpoint = "None") =>
            /\ client_op'.raised.type = "ValueError"
            /\ client_op'.external = "none"
            /\ external_calls' = external_calls
            /\ endpoint' = "None"]_vars
    /\ [][InitializeFailed =>
            /\ endpoint' = endpoint
            /\ client_op'.raised.type = "EndpointInitializationError"]_vars
    /\ [](endpoint = "None" => external_calls = 0)

\* After a failed initialize_endpoint, find_neighbors on the client, still
\* uninitialized, raised ValueError and no external call was issued.
C18_Witness ==
    /\ endpoint = "None"
    /\ client_op.op = "find_neighbors"
    /\ client_op.raised.type = "ValueError"
    /\ client_op.external = "none"
    /\ external_calls = 0

\* -------------------------------------------------------- ingestion claims
\* The outcomes of a call that are failures of the service called.
ServiceFailures ==
    {"EmbeddingError", "GoogleAPIError", "poll failed", "operation failed",
     "timeout"}

AllServicesSucceeded ==
    \A c \in 1..Len(setup_calls) : setup_calls[c].outcome \notin ServiceFailures

\* The ids under which the metadata store holds a record.
StoredIds == {id \in DOMAIN metadata_store : metadata_store[id].exists}

\* C12: ingesting N valid texts through setup_vector_search, every external
\* service succeeding, produces N DataPoints with pairwise distinct ids and
\* stores N MetadataRecords, one under each of those ids.
C12_IngestionStoresAll ==
    (/\ setup_pc = "done"
     /\ Len(setup_texts) >= 1
     /\ AllServicesSucceeded)
    => /\ setup_raised = NoError
       /\ Len(datapoints) = Len(setup_texts)
       /\ \A i, j \in 1..Len(datapoints) :
             i # j => datapoints[i].datapoint_id # datapoints[j].datapoint_id
       /\ StoredIds = {datapoints[i].datapoint_id : i \in 1..Len(datapoints)}
       /\ Cardinality(StoredIds) = Len(setup_texts)

\* The last call setup_vector_search made.
LastCall == setup_calls[Len(setup_calls)]

\* setup_vector_search ended in a wait_for_operation with this outcome.
WaitEnded(outcomes) ==
    /\ setup_pc = "done"
    /\ setup_calls # <<>>
    /\ LastCall.call = "wait_for_operation"
    /\ LastCall.outcome \in outcomes

\* C16 as stated: when a wait for a long-running operation times out, the
\* failure that reaches the caller is a timeout error of a type other than
\* that of an API error, both from wait_for_operation and from
\* setup_vector_search.
C16_TimeoutDistinct ==
    WaitEnded({"timeout"}) =>
       /\ wait_raised.type = "TimeoutError"
       /\ setup_raised.type = "TimeoutError"

\* C16: a timeout leaves wait_for_operation as a TimeoutError and an API
\* error as a GoogleAPIError; setup_vector_search raises a plain Exception
\* for both, whose cause is the TimeoutError or the GoogleAPIError.
C16_TimeoutDistinctByCause ==
    /\ WaitEnded({"timeout"}) =>
          /\ wait_raised.type = "TimeoutError"
          /\ setup_raised.type = "Exception"
          /\ setup_raised.cause = "TimeoutError"
    /\ WaitEnded({"poll failed", "operation failed"}) =>
          /\ wait_raised.type = "GoogleAPIError"
          /\ setup_raised.type = "Exception"
          /\ setup_raised.cause = "GoogleAPIError"

\* The index was created and the wait for the endpoint timed out: the setup
\* failed with an Exception caused by a TimeoutError.
C16_Witness ==
    /\ WaitEnded({"timeout"})
    /\ \E c \in 1..Len(setup_calls) :
          setup_calls[c].call = "create_endpoint"
    /\ TimedOut(elapsed)
    /\ setup_raised.cause = "TimeoutError"

\* ------------------------------------------------- single embedding claims
\* The attempts that failed, and those of them that were followed by a sleep:
\* every failed attempt except the last of the retry_attempts.
FailedAttempts == {i \in 1..Len(attempt_log) : attempt_log[i] # "ok"}

AllAttemptsFailed ==
    Len(attempt_log) = retry_attempts /\ FailedAttempts = 1..retry_attempts

\* C21: with retry_attempts >= 1, _generate_single_embedding calls the
\* service at most retry_attempts times, returns the vector of the first
\* successful call without a further call, sleeps retry_delay after each
\* failed attempt except the last, and raises EmbeddingGenerationError
\* exactly when all retry_attempts calls failed.
C21_RetriesThenRaises ==
    (single_pc # "idle" /\ retry_attempts >= 1) =>
        /\ Len(attempt_log) <= retry_attempts
        /\ \A i \in 1..(Len(attempt_log) - 1) : attempt_log[i] # "ok"
        /\ slept = retry_delay * Cardinality(FailedAttempts \ {retry_attempts})
        /\ single_returned.done <=>
              (attempt_log # <<>> /\ attempt_log[Len(attempt_log)] = "ok")
        /\ single_returned.done =>
              single_returned.value = EmbeddingOf(single_text)
        /\ (single_raised # NoError) <=> (single_pc = "done" /\ AllAttemptsFailed)
        /\ single_raised # NoError =>
              single_raised.type = "EmbeddingGenerationError"
        /\ single_pc = "done" <=> (single_returned.done \/ single_raised # NoError)

\* With three attempts configured, two calls failed, each followed by a sleep
\* of one second, and the third returned the vector.
C21_Witness ==
    /\ single_pc = "done"
    /\ retry_attempts = MAX_RETRY_ATTEMPTS
    /\ retry_delay = RETRY_DELAY_SECONDS
    /\ Len(attempt_log) = 3
    /\ attempt_log[3] = "ok"
    /\ slept = 2 * RETRY_DELAY_SECONDS
    /\ single_returned = Returned(EmbeddingOf(single_text))

\* ------------------------------------------------ ingestion order claims
\* The positions in setup_calls of the calls of a service with an outcome.
CallsOf(call, outcome) ==
    {c \in 1..Len(setup_calls) :
        setup_calls[c].call = call /\ setup_calls[c].outcome = outcome}

\* Every call of `later` was made after a successful call of `earlier`.
Precedes(earlier, later) ==
    \A d \in CallsOf(later, "ok") : \E c \in CallsOf(earlier, "ok") : c < d

\* C22: during setup_vector_search the metadata records are committed before
\* the datapoints are upserted, the index and the endpoint are created before
\* the upsert and the upsert comes before the deployment; an ingestion whose
\* services all succeed commits the records and then upserts the datapoints.
C22_MetadataBeforeUpsert ==
    /\ Precedes("batch_save_text_metadata", "upsert_datapoints")
    /\ Precedes("create_index", "upsert_datapoints")
    /\ Precedes("create_endpoint", "upsert_datapoints")
    /\ Precedes("upsert_datapoints", "deploy_index")
    /\ (/\ setup_pc = "done"
        /\ Len(setup_texts) >= 1
        /\ AllServicesSucceeded)
       => /\ CallsOf("batch_save_text_metadata", "ok") # {}
          /\ CallsOf("upsert_datapoints", "ok") # {}

\* ------------------------------------------------- operation wait claims
Waiting == setup_pc \in {"wait_index", "wait_endpoint"}

\* A step of the loop of wait_for_operation: it slept or it ended.
WaitStep == Waiting /\ (elapsed' # elapsed \/ setup_calls' # setup_calls)

\* C23: wait_for_operation terminates when time advances; it returns (or
\* raises the error of) the operation at the first poll that finds it done,
\* also when the time limit has passed, it sleeps only while the limit has not
\* passed, each sleep advancing the time, and it raises TimeoutError at the
\* first poll that finds the operation not done with the limit exceeded.
C23_WaitTerminates ==
    /\ [][WaitStep =>
            /\ operation # "running" =>
                  /\ elapsed' = elapsed
                  /\ LastCall'.outcome \in
                        {IF operation = "succeeded" THEN "ok"
                         ELSE "operation failed", "poll failed"}
            /\ (operation = "running" /\ elapsed > TimeoutIntervals) =>
                  /\ elapsed' = elapsed
                  /\ LastCall'.outcome \in {"timeout", "poll failed"}
            /\ setup_calls' # setup_calls =>
                  (LastCall'.outcome = "timeout" <=>
                      wait_raised'.type = "TimeoutError")
            /\ wait_raised'.type = "TimeoutError" =>
                  (operation = "running" /\ elapsed > TimeoutIntervals)
            /\ elapsed' # elapsed =>
                  /\ operation = "running"
                  /\ elapsed <= TimeoutIntervals
                  /\ elapsed' > elapsed
                  /\ Waiting']_vars
    /\ (setup_pc = "wait_index") ~> (setup_pc # "wait_index")
    /\ (setup_pc = "wait_endpoint") ~> (setup_pc # "wait_endpoint")

\* The index operation finished after the time limit had passed and before
\* the next poll: wait_for_operation returned its result.
C23_Witness ==
    /\ setup_pc = "create_endpoint"
    /\ elapsed > TimeoutIntervals
    /\ LastCall.call = "wait_for_operation"
    /\ LastCall.outcome = "ok"


\* ------------------------------------------------- metadata fetch claims
\* An iteration of `for match in question_results` is about to run.
AtMatch ==
    /\ search_pc = "process"
    /\ QuestionIdx <= Len(questions)
    /\ match_idx <= Len(raw_results[QuestionIdx])

\* A step that ran that iteration, to its end or to the raise of the store.
MatchStep == AtMatch /\ (match_idx' # match_idx \/ search_pc' # search_pc)

\* The ids of the neighbors at or above the threshold, list after list, in
\* the order of the lists.
RECURSIVE PassingIds(_)
PassingIds(lists) ==
    IF lists = <<>> THEN <<>>
    ELSE LET passing == SelectSeq(Head(lists), PassesThreshold)
         IN  [m \in 1..Len(passing) |-> passing[m].id]
             \o PassingIds(Tail(lists))

\* C24: the metadata store is asked only for neighbors that passed the
\* threshold: an iteration makes no get_text_metadata call for a neighbor
\* below min_similarity_score and exactly one, for that neighbor's id, for a
\* neighbor at or above it; once every neighbor was handled the calls made
\* are those for the passing neighbors, one each, in order.
C24_FetchOnlyPassing ==
    /\ [][MatchStep =>
            metadata_fetches' =
                IF PassesThreshold(CurrentMatch)
                THEN Append(metadata_fetches, CurrentMatch.id)
                ELSE metadata_fetches]_vars
    /\ []((search_pc = "done" /\ search_raised.cause \in {"none", "ValueError"})
            => metadata_fetches = PassingIds(raw_results))

\* A query with a neighbor below the threshold and one at it was processed:
\* the store was asked once, for the second.
C24_Witness ==
    /\ search_pc = "done"
    /\ response.done
    /\ \E q \in 1..Len(raw_results) :
          /\ Len(raw_results[q]) = 2
          /\ ~PassesThreshold(raw_results[q][1])
          /\ PassesThreshold(raw_results[q][2])
          /\ Len(metadata_fetches) = 1
          /\ metadata_fetches[1] = raw_results[q][2].id


\* ------------------------------------------------------ statistics claims
\* The number of matches of all the per-query result lists.
RECURSIVE TotalMatches(_)
TotalMatches(results) ==
    IF results = <<>> THEN 0
    ELSE Len(Head(results).results) + TotalMatches(Tail(results))

\* C25: calculate_statistics aggregates over exactly the surviving matches of
\* all queries: the count of the returned statistics equals the total number
\* of matches of all the per-query result lists, min_value <= median <=
\* max_value, min_value <= mean <= max_value, and std_dev is present if and
\* only if count > 1.
C25_StatisticsOverAllMatches ==
    (response.done /\ compute_statistics) =>
        LET stats == response.statistics IN
        /\ stats.count = TotalMatches(processed_results)
        /\ stats.min_value <= stats.median /\ stats.median <= stats.max_value
        /\ stats.min_value <= stats.mean /\ stats.mean <= stats.max_value
        /\ ("std_dev" \in DOMAIN stats) <=> (stats.count > 1)

\* Statistics over three matches of two queries, with different scores: the
\* mean lies strictly between min_value and max_value, std_dev is present.
C25_Witness ==
    /\ response.done
    /\ compute_statistics
    /\ Len(processed_results) = 2
    /\ Len(processed_results[1].results) = 1
    /\ Len(processed_results[2].results) = 2
    /\ response.statistics.count = 3
    /\ response.statistics.min_value < response.statistics.mean
    /\ response.statistics.mean < response.statistics.max_value
    /\ "std_dev" \in DOMAIN response.statistics
    /\ response.statistics.std_dev > 0


\* ------------------------------------------------------- formatter claims
\* A part of the summary shows a match: its rank, its score with four
\* decimals and its file name.
Shows(line, rank, match) ==
    /\ line.rank = rank
    /\ FixedPointOne * line.score = 10000 * match.similarity_score
    /\ line.file = match.metadata.filename

\* C26: to_summary_text lists, for every query, at most max_matches matches,
\* and they are the first min(max_matches, number of matches) matches of that
\* query in their original order; to_detailed_dict is not capped and reports
\* a match_count equal to the number of matches it lists, all of the query.
C26_SummaryCappedDetailNot ==
    /\ fmt_pc = "done" =>
          /\ Len(fmt_summary) = Len(fmt_results)
          /\ \A q \in 1..Len(fmt_results) :
                LET matches == fmt_results[q].results
                    lines == fmt_summary[q].lines
                IN  /\ Len(lines) <= max_matches
                    /\ Len(lines) = Min(max_matches, Len(matches))
                    /\ fmt_summary[q].top = Len(lines)
                    /\ \A i \in 1..Len(lines) : Shows(lines[i], i, matches[i])
    /\ fmt_pc \in {"to_summary_text", "done"} =>
          /\ Len(fmt_detailed) = Len(fmt_results)
          /\ \A q \in 1..Len(fmt_results) :
                LET matches == fmt_results[q].results
                    listed == fmt_detailed[q].matches
                IN  /\ fmt_detailed[q].match_count = Len(listed)
                    /\ Len(listed) = Len(matches)
                    /\ \A i \in 1..Len(listed) :
                          listed[i].id = matches[i].data_point_id

\* A query with three different matches summarized with max_matches 2: the
\* summary shows the first two, the detailed form all three.
C26_Witness ==
    /\ fmt_pc = "done"
    /\ max_matches = 2
    /\ Len(fmt_results) = 1
    /\ Len(fmt_results[1].results) = 3
    /\ fmt_results[1].results[1] # fmt_results[1].results[2]
    /\ fmt_results[1].results[2] # fmt_results[1].results[3]
    /\ fmt_summary[1].top = 2
    /\ fmt_detailed[1].match_count = 3


\* ------------------------------------------------- question pairing claims
\* search hands the vectors generate_embeddings returned for its questions
\* to find_neighbors, which answers one neighbor list per query, in the order
\* of the queries; `zip(questions, raw_results)` then pairs question i with
\* the neighbors of the i-th vector.
PairedEmbedding(i) == returned.value[i]

\* C27: search returns one result entry per input question, in input order,
\* and the matches under question i derive from the neighbor list of question
\* i's own embedding, for any number of questions, also more than one
\* embedding batch: the vector paired with question i is the embedding of
\* question i.
C27_MatchesOfOwnQuestion ==
    (returned.done /\ AllAnswersExact /\ NumBatches(text_info_list, batch_size) > 1)
        => /\ Len(returned.value) = Len(text_info_list)
           /\ \A i \in 1..Len(text_info_list) :
                 PairedEmbedding(i) = EmbeddingOf(text_info_list[i].content)


\* ------------------------------------------------- empty statistics claims
\* The search came to its end without a failure of the embedding service,
\* the index or the store.
SearchEndedWithoutExternalFailure ==
    /\ search_pc = "done"
    /\ search_raised.cause \notin
          {"EmbeddingError", "SearchOperationError", "GoogleAPIError"}

\* C28: with compute_statistics enabled, a search in which no match survives
\* for any query, or with an empty question list, does not return a response
\* with empty match lists: calculate_statistics raises and the search fails
\* with SearchError; with compute_statistics disabled the same search returns
\* normally, every match list empty.
C28_NoMatchFailsWithStatistics ==
    (SearchEndedWithoutExternalFailure /\ TotalMatches(processed_results) = 0)
        => IF compute_statistics
           THEN /\ ~response.done
                /\ search_raised = WrapSearchError("ValueError")
           ELSE /\ response.done
                /\ search_raised = NoError
                /\ \A q \in 1..Len(questions) :
                      response.results[q].match_count = 0

\* Two questions with neighbors, all below the threshold, and statistics
\* enabled: the search raised SearchError.
C28_Witness ==
    /\ search_pc = "done"
    /\ compute_statistics
    /\ Len(questions) = 2
    /\ Len(processed_results) = 2
    /\ \A q \in 1..2 : Len(raw_results[q]) > 0
    /\ metadata_fetches = <<>>
    /\ search_raised.type = "SearchError"
    /\ search_raised.cause = "ValueError"
    /\ ~response.done


\* ------------------------------------------------- executor shutdown claims
\* The call of the service for a submitted batch has finished.
BatchCallFinished(b) ==
    /\ future_state[b] \in {"ok", "failed"}
    /\ api_calls[b] = 1

\* C29: when one batch fails in generate_embeddings the batches already
\* submitted are not cancelled: a batch still queued can be started while the
\* executor shuts down, no finished batch changes, and the error reaches the
\* caller only after the call of every submitted batch has finished; so the
\* call terminates whenever every call of the embedding service returns or
\* raises.
C29_ErrorAfterAllBatches ==
    /\ [](pc = "shutdown" =>
            \A b \in DOMAIN future_state :
                (/\ future_state[b] = "queued"
                 /\ \A j \in 1..(b - 1) : future_state[j] # "queued")
                    => ENABLED StartBatch(b))
    /\ []((pc = "done" /\ raised.cause = "BatchProcessingError") =>
            \A b \in DOMAIN future_state : BatchCallFinished(b))
    /\ (pc = "shutdown") ~> (pc = "done")
    /\ <>(pc = "done")

\* The error of a failed batch reached the caller after a batch that was
\* still queued when the error was raised had been run to its answer.
C29_Witness ==
    /\ pc = "done"
    /\ raised.cause = "BatchProcessingError"
    /\ \E b \in DOMAIN future_state :
          /\ b \notin collected
          /\ future_state[b] = "ok"
          /\ api_calls[b] = 1


\* ---------------------------------------------------- error type claims
\* A failure happened inside generate_embeddings: a text over the token limit
\* or not encodable, a failed batch met by the collecting loop, or a number
\* of vectors other than the number of texts after the loop.
EmbeddingFailureHappened ==
    \/ \E i \in 1..Len(text_info_list) :
          ~validate_token_count(text_info_list[i].tokens, MAX_TOKENS_PER_TEXT)
    \/ \E b \in collected : future_state[b] = "failed"
    \/ /\ collected = DOMAIN future_state
       /\ Len(all_embeddings) # Len(text_info_list)

\* A failure happened inside search: an external call of it raised, or the
\* statistics could not be computed.
SearchFailureHappened ==
    \/ search_raised.cause \in
          {"EmbeddingError", "SearchOperationError", "GoogleAPIError"}
    \/ /\ QuestionIdx > Len(questions)
       /\ compute_statistics
       /\ StatisticsRaise(processed_results)

\* C30: every failure inside generate_embeddings (token limit, batch failure,
\* count mismatch) reaches the caller as EmbeddingError and every failure
\* inside search (embedding, index query, metadata fetch, statistics) reaches
\* the caller as SearchError: an ended call either returned, and then nothing
\* failed, or raised that type, and no other exception type ever escapes.
C30_OnlyDeclaredErrorTypes ==
    /\ raised # NoError => raised.type = "EmbeddingError"
    /\ search_raised # NoError => search_raised.type = "SearchError"
    /\ pc = "done" =>
          IF EmbeddingFailureHappened
          THEN ~returned.done /\ raised.type = "EmbeddingError"
          ELSE returned.done /\ raised = NoError
    /\ search_pc = "done" =>
          IF SearchFailureHappened
          THEN ~response.done /\ search_raised.type = "SearchError"
          ELSE response.done /\ search_raised = NoError

\* A search whose metadata fetch raised inside the store ended with a
\* SearchError that keeps the cause.
C30_Witness ==
    /\ search_pc = "done"
    /\ Len(metadata_fetches) > 0
    /\ search_raised = [type |-> "SearchError", cause |-> "GoogleAPIError",
                        label |-> 0]
    /\ ~response.done

====
